---- MODULE Spec2Model ----
(***************************************************************************)
(* Model of LOGS_READ.py, the BMS log analyzer.                            *)
(*                                                                         *)
(* A text line is a sequence of tokens.  A token is a run of characters    *)
(* that the program never looks inside ("Sample", "t1", "0x00"), or one of *)
(* the three characters it does look for: "," (field delimiter), "="       *)
(* (metadata separator) and " " (whitespace).  str.strip, str.startswith,  *)
(* the `in` substring test and str.split are computed on token sequences.  *)
(***************************************************************************)
EXTENDS Integers, Sequences, FiniteSets, TLC

VARIABLES uploaded_files, pos, scan, ret, data_logs, error_logs, warnings,
          phase, err_counts, selected_file, active_flags, power

vars == <<uploaded_files, pos, scan, ret, data_logs, error_logs, warnings,
          phase, err_counts, selected_file, active_flags, power>>

\* ------------------------------------------------------------------------
\* Bounds of the model
\* ------------------------------------------------------------------------
MaxHead == 1       \* lines of a scanned file before the filler block
MaxTail == 2       \* lines of a scanned file after the filler block
MaxRows == 3       \* data rows of a table file
MaxFlagRows == 2   \* data rows of a flag file
MaxErrRows == 4    \* data rows of an error-tally file
MaxFiles == 2      \* files of a batch

\* ------------------------------------------------------------------------
\* Program constants
\* ------------------------------------------------------------------------
ScanLimitShort == 50 - 1
ScanLimit == 50    \* content[:50]

DataSig == <<"Sample", ",", "DateTime">>
ErrSig1 == <<"Error Code", ",", "Error String">>
ErrSig2 == <<"Time", ",", "LogCaption", ",", "Error Code">>

\* ------------------------------------------------------------------------
\* String helpers
\* ------------------------------------------------------------------------
Min(S) == CHOOSE x \in S : \A y \in S : x <= y
Max(S) == CHOOSE x \in S : \A y \in S : x >= y

\* str.strip(): drop leading and trailing whitespace
strip(s) ==
  LET keep == {i \in 1..Len(s) : s[i] # " "}
  IN  IF keep = {} THEN <<>> ELSE SubSeq(s, Min(keep), Max(keep))

\* str.startswith(p)
startswith(s, p) == Len(s) >= Len(p) /\ SubSeq(s, 1, Len(p)) = p

\* p in s
contains(s, p) ==
  \E i \in 1..(Len(s) - Len(p) + 1) : SubSeq(s, i, i + Len(p) - 1) = p

\* s.split(sep): every separator splits
RECURSIVE split(_, _)
split(s, sep) ==
  LET at == {i \in 1..Len(s) : s[i] = sep}
  IN  IF at = {} THEN <<s>>
      ELSE <<SubSeq(s, 1, Min(at) - 1)>>
             \o split(SubSeq(s, Min(at) + 1, Len(s)), sep)

\* s.split(sep, 1): only the first separator splits
split1(s, sep) ==
  LET at == {i \in 1..Len(s) : s[i] = sep}
  IN  IF at = {} THEN <<s>>
      ELSE <<SubSeq(s, 1, Min(at) - 1), SubSeq(s, Min(at) + 1, Len(s))>>

\* d[k] = v on a dict
put(d, k, v) == [x \in (DOMAIN d) \cup {k} |-> IF x = k THEN v ELSE d[x]]

EmptyDict == [x \in {} |-> <<>>]

\* ------------------------------------------------------------------------
\* parse_log_file, part 1: detect the file type (the for loop)
\* ------------------------------------------------------------------------
isDataHeaderAnywhere(line) == contains(line, DataSig)
isDataHeader(line) == startswith(line, DataSig)
isErrorHeader(line) == contains(line, ErrSig1) \/ contains(line, ErrSig2)

\* the metadata branch of one loop iteration
metaStepFirstWins(metadata, line) ==
  IF contains(line, <<"=">>)
  THEN LET parts == split1(line, "=")
       IN  IF Len(parts) = 2 /\ strip(parts[1]) \notin DOMAIN metadata
           THEN put(metadata, strip(parts[1]), strip(parts[2]))
           ELSE metadata
  ELSE metadata
metaStep(metadata, line) ==
  IF contains(line, <<"=">>)
  THEN LET parts == split1(line, "=")
       IN  IF Len(parts) = 2
           THEN put(metadata, strip(parts[1]), strip(parts[2]))
           ELSE metadata
  ELSE metadata

\* the metadata branch applied to the lines with the given zero-based indices
\* in ascending order (an iteration on a line without `=` changes nothing)
RECURSIVE harvest(_, _, _)
harvest(content, I, metadata) ==
  IF I = {} THEN metadata
  ELSE harvest(content, I \ {Min(I)},
               metaStep(metadata, strip(content[Min(I) + 1])))

\* the two header tests of an iteration that breaks, in the order of the code
classifyErrorFirst(line) == IF isErrorHeader(line) THEN "error" ELSE "data"
classify(line) == IF isDataHeader(line) THEN "data" ELSE "error"

\* the for loop over content[:50]: it breaks at the first line that passes a
\* header test and runs the metadata branch on every line before it
detect(content) ==
  LET n    == Min({Len(content), ScanLimit})
      hits == {i \in 0..(n - 1) : \/ isDataHeader(strip(content[i + 1]))
                                  \/ isErrorHeader(strip(content[i + 1]))}
      stop == IF hits = {} THEN n ELSE Min(hits)
      metadata ==
        harvest(content,
                {i \in 0..(stop - 1) : contains(strip(content[i + 1]), <<"=">>)},
                EmptyDict)
  IN  IF hits = {}
      THEN [file_type |-> "unknown", header_index |-> 0,
            metadata |-> metadata, i |-> n - 1]
      ELSE [file_type |-> classify(strip(content[stop + 1])),
            header_index |-> stop, metadata |-> metadata, i |-> stop]

\* ------------------------------------------------------------------------
\* parse_log_file, part 2: parse the DataFrame
\* ------------------------------------------------------------------------
NoDF == [present |-> FALSE, columns |-> <<>>, rows |-> <<>>]
NaN == <<>>                              \* a missing cell
NaT == [valid |-> FALSE, t |-> 0]        \* a missing timestamp

\* content[header_index:]
sliceFrom(content, header_index) ==
  SubSeq(content, header_index + 1, Len(content))

isBlank(line) == strip(line) = <<>>

\* pd.read_csv on the joined lines.  The first line names the columns.  Blank
\* lines are skipped.  The first data row may carry more fields than the
\* header (the surplus leading fields become the index); every later row
\* with more fields than the established width raises ParserError; a row
\* with fewer fields is kept and padded with NaN.
read_csv(lines) ==
  LET header  == split(lines[1], ",")
      H       == Len(header)
      data    == SelectSeq(Tail(lines), LAMBDA l : ~isBlank(l))
      fields  == [r \in 1..Len(data) |-> split(data[r], ",")]
      W       == IF Len(data) = 0 THEN H ELSE Max({H, Len(fields[1])})
      leading == W - H
  IN  IF \E r \in 2..Len(data) : Len(fields[r]) > W
      THEN [ok |-> FALSE, columns |-> <<>>, rows |-> <<>>]
      ELSE [ok |-> TRUE, columns |-> header,
            rows |-> [r \in 1..Len(data) |->
                        [line  |-> r,
                         cells |-> [j \in 1..H |->
                                      IF leading + j <= Len(fields[r])
                                      THEN fields[r][leading + j]
                                      ELSE NaN],
                         time  |-> NaT]]]

hasColumn(df, name) == \E j \in 1..Len(df.columns) : df.columns[j] = name
colIndex(df, name) == Min({j \in 1..Len(df.columns) : df.columns[j] = name})
column(df, name) == [r \in 1..Len(df.rows) |-> df.rows[r].cells[colIndex(df, name)]]

\* the timestamps the model's cells can denote; a bare integer is read as an
\* offset from the epoch and so precedes every dated cell
TimeOf == [c \in {"5", "t1", "t2"} |->
             IF c = "5" THEN 0 ELSE IF c = "t1" THEN 1 ELSE 2]

\* pd.to_datetime(..., errors='coerce') on one cell
to_datetime(cell) ==
  IF Len(cell) = 1 /\ cell[1] \in DOMAIN TimeOf
  THEN [valid |-> TRUE, t |-> TimeOf[cell[1]]]
  ELSE NaT

Perms(n) == {p \in [1..n -> 1..n] : \A a, b \in 1..n : a # b => p[a] # p[b]}

\* the orders in which the rows of one group of equal keys can come out
anyOrder(group) ==
  {[k \in 1..Len(group) |-> group[p[k]]] : p \in Perms(Len(group))}

\* the rows with a valid key, ascending by key, key by key
RECURSIVE ascending(_, _)
ascending(ks, rows) ==
  IF ks = {} THEN {<<>>}
  ELSE LET k     == Min(ks)
           group == SelectSeq(rows, LAMBDA r : r.time.valid /\ r.time.t = k)
       IN  {g \o rest : g \in anyOrder(group),
                        rest \in ascending(ks \ {k}, rows)}

\* df.sort_values(by=time_col): the default kind is quicksort, which is not
\* stable, so rows with equal keys come out in any order; missing keys are
\* split off first and appended in their original order (na_position='last')
sort_values_unsorted(rows) == {rows}
sort_values(rows) ==
  LET ks   == {rows[r].time.t : r \in {q \in 1..Len(rows) : rows[q].time.valid}}
      nans == SelectSeq(rows, LAMBDA r : ~r.time.valid)
  IN  {s \o nans : s \in ascending(ks, rows)}

\* time_col: 'DateTime', else 'Time', else None ("" here)
time_col_of(df) ==
  IF hasColumn(df, <<"DateTime">>) THEN <<"DateTime">>
  ELSE IF hasColumn(df, <<"Time">>) THEN <<"Time">>
  ELSE <<>>

\* the try block after a successful read_csv: the tables it can produce
parse_df(raw) ==
  LET df0 == [present |-> TRUE,
              columns |-> [j \in 1..Len(raw.columns) |-> strip(raw.columns[j])],
              rows    |-> raw.rows]
      tc  == time_col_of(df0)
      timed == [r \in 1..Len(df0.rows) |->
                  [df0.rows[r] EXCEPT
                     !.time = to_datetime(df0.rows[r].cells[colIndex(df0, tc)])]]
  IN  IF tc = <<>> THEN {df0}
      ELSE {[df0 EXCEPT !.rows = s] : s \in sort_values(timed)}

\* parse_log_file(uploaded_file): the (locals, return value) pairs a call on
\* this content can end with
parse_log_file(content) ==
  LET d == detect(content)
  IN  IF d.file_type = "unknown"
      THEN {[scan |-> d,
             ret  |-> [ftype |-> "unknown", meta |-> EmptyDict, df |-> NoDF]]}
      ELSE LET raw == read_csv(sliceFrom(content, d.header_index))
           IN  IF ~raw.ok
               THEN {[scan |-> d,
                      ret  |-> [ftype |-> "error_parsing", meta |-> EmptyDict,
                                df |-> NoDF]]}
               ELSE {[scan |-> d,
                      ret  |-> [ftype |-> d.file_type, meta |-> d.metadata,
                                df |-> df]] : df \in parse_df(raw)}

\* ------------------------------------------------------------------------
\* Main app logic: the upload loop
\* ------------------------------------------------------------------------
\* an insertion-ordered dict as a sequence of (key, value) entries
hasKey(d, k) == \E j \in 1..Len(d) : d[j].key = k
get(d, k) == d[CHOOSE j \in 1..Len(d) : d[j].key = k].value

\* d[k] = v: a new key is appended, a known key keeps its place and has its
\* value replaced
setitem(d, k, v) ==
  IF hasKey(d, k)
  THEN [j \in 1..Len(d) |-> IF d[j].key = k THEN [key |-> k, value |-> v] ELSE d[j]]
  ELSE Append(d, [key |-> k, value |-> v])

NoScan == [file_type |-> "unknown", header_index |-> 0,
           metadata |-> EmptyDict, i |-> -1]
NoRet == [ftype |-> "none", meta |-> EmptyDict, df |-> NoDF]
NoPower == [present |-> FALSE, values |-> <<>>]

\* the phase the script enters when the upload loop has ended
afterLoop(dl, el) ==
  IF Len(el) > 0 THEN "errors" ELSE IF Len(dl) > 0 THEN "data" ELSE "done"

\* one iteration of `for file in uploaded_files`
ParseNext ==
  /\ phase = "loop"
  /\ pos < Len(uploaded_files)
  /\ LET file == uploaded_files[pos + 1]
     IN  \E r \in parse_log_file(file.content) :
           /\ scan' = r.scan
           /\ ret' = r.ret
           /\ data_logs' = IF r.ret.ftype = "data"
                           THEN setitem(data_logs, file.name,
                                        [meta |-> r.ret.meta, df |-> r.ret.df])
                           ELSE data_logs
           /\ error_logs' = IF r.ret.ftype = "error"
                            THEN setitem(error_logs, file.name, r.ret.df)
                            ELSE error_logs
           /\ warnings' = IF r.ret.ftype \notin {"data", "error"}
                          THEN Append(warnings, file.name)
                          ELSE warnings
  /\ pos' = pos + 1
  /\ phase' = IF pos' = Len(uploaded_files)
              THEN afterLoop(data_logs', error_logs')
              ELSE "loop"
  /\ UNCHANGED <<uploaded_files, err_counts, selected_file, active_flags, power>>

\* ------------------------------------------------------------------------
\* 1. Error log analysis
\* ------------------------------------------------------------------------
dropna(col) == SelectSeq(col, LAMBDA c : c # NaN)

occurrences(col, c) == Cardinality({r \in 1..Len(col) : col[r] = c})
firstSeen(col, c) == Min({r \in 1..Len(col) : col[r] = c})

\* Series.value_counts(): missing values are dropped, the distinct values are
\* collected in order of first appearance, and the counts are then sorted
\* descending with the default (unstable) sort: values with equal counts can
\* come out in any order
value_counts_unsorted(col) ==
  LET codes == dropna(col)
      D     == {codes[r] : r \in 1..Len(codes)}
      n     == Cardinality(D)
  IN  {[k \in 1..n |-> [code |-> f[k], count |-> occurrences(codes, f[k])]] :
         f \in {g \in [1..n -> D] :
                  \A a, b \in 1..n :
                    a < b => firstSeen(codes, g[a]) < firstSeen(codes, g[b])}}
value_counts(col) ==
  LET codes == dropna(col)
      D     == {codes[r] : r \in 1..Len(codes)}
      n     == Cardinality(D)
  IN  {[k \in 1..n |-> [code |-> f[k], count |-> occurrences(codes, f[k])]] :
         f \in {g \in [1..n -> D] :
                  /\ \A a, b \in 1..n : a # b => g[a] # g[b]
                  /\ \A a, b \in 1..n :
                       a < b => occurrences(codes, g[a]) >= occurrences(codes, g[b])}}

\* px.scatter(df_err, x='Time', y='Error Code', color='LogCaption',
\* hover_data=['Error String']) raises when a named column is missing
timelineRaises(df) ==
  /\ hasColumn(df, <<"Time">>)
  /\ ~(/\ hasColumn(df, <<"Error Code">>)
       /\ hasColumn(df, <<"LogCaption">>)
       /\ hasColumn(df, <<"Error String">>))

\* one iteration of `for name, df_err in error_logs.items()`; err_counts
\* holds one entry per error file analysed so far
AnalyseErrorLog ==
  /\ phase = "errors"
  /\ Len(err_counts) < Len(error_logs)
  /\ LET name   == error_logs[Len(err_counts) + 1].key
         df_err == error_logs[Len(err_counts) + 1].value
         col    == IF hasColumn(df_err, <<"Error Code">>)
                   THEN column(df_err, <<"Error Code">>) ELSE <<>>
     IN  /\ \E counts \in (IF hasColumn(df_err, <<"Error Code">>)
                            THEN value_counts(col) ELSE {<<>>}) :
               err_counts' = Append(err_counts,
                 [name |-> name,
                  total_errs |-> Len(df_err.rows),
                  unique_codes |-> Cardinality({col[r] : r \in 1..Len(col)}),
                  counts |-> counts])
         /\ phase' = IF timelineRaises(df_err) THEN "crashed"
                     ELSE IF Len(err_counts') < Len(error_logs) THEN "errors"
                     ELSE IF Len(data_logs) > 0 THEN "data"
                     ELSE "done"
  /\ UNCHANGED <<uploaded_files, pos, scan, ret, data_logs, error_logs,
                 warnings, selected_file, active_flags, power>>

\* ------------------------------------------------------------------------
\* 2. Data log analysis
\* ------------------------------------------------------------------------
\* the numbers the model's cells can denote (leading zeros are read away)
NumOf == [c \in {"0", "00", "0000", "1", "3", "5", "7", "9"} |->
            CASE c = "1" -> 1 [] c = "3" -> 3 [] c = "5" -> 5
              [] c = "7" -> 7 [] c = "9" -> 9 [] OTHER -> 0]

isNumericCell(c) == Len(strip(c)) = 1 /\ strip(c)[1] \in DOMAIN NumOf
number(c) == NumOf[strip(c)[1]]

\* read_csv's column dtype: numeric when every non-missing cell is a number,
\* object (text) otherwise
isNumericColumn(col) ==
  \A r \in 1..Len(col) : col[r] = NaN \/ isNumericCell(col[r])

ZeroAliases == {<<"0">>, <<"0x0">>, <<"0x00">>, <<"0x0000">>, <<"0000">>, <<"00">>}

isFlagColumn(c) == contains(c, <<"Stat">>) \/ contains(c, <<"Alert">>)

\* the body of `for col in flag_cols`: is_nonzero for one column
is_nonzero(col) ==
  IF ~isNumericColumn(col)
  THEN \E r \in 1..Len(col) : col[r] \notin ZeroAliases
  ELSE \E r \in 1..Len(col) : col[r] = NaN \/ number(col[r]) # 0

\* df['Voltage']/1000 and df['Current']/1000 need both columns, as numbers;
\* every plot needs 'DateTime'
plotsRaise(df) ==
  \/ ~hasColumn(df, <<"DateTime">>)
  \/ ~hasColumn(df, <<"Voltage">>)
  \/ ~hasColumn(df, <<"Current">>)
  \/ ~isNumericColumn(column(df, <<"Voltage">>))
  \/ ~isNumericColumn(column(df, <<"Current">>))

\* df['Power_W'], in microwatts: (mV/1000) * (mA/1000) W = mV * mA uW
Power_W(df) ==
  LET V == column(df, <<"Voltage">>)
      C == column(df, <<"Current">>)
  IN  [r \in 1..Len(df.rows) |->
         IF V[r] = NaN \/ C[r] = NaN
         THEN [valid |-> FALSE, uW |-> 0]
         ELSE [valid |-> TRUE, uW |-> number(V[r]) * number(C[r])]]

\* the `if data_logs:` block for the file the user selects
AnalyseDataLog ==
  /\ phase = "data"
  /\ \E k \in 1..Len(data_logs) :
       LET df == data_logs[k].value.df
           flag_cols == SelectSeq(df.columns, isFlagColumn)
       IN  /\ selected_file' = data_logs[k].key
           /\ active_flags' = SelectSeq(flag_cols,
                                LAMBDA c : is_nonzero(column(df, c)))
           /\ IF plotsRaise(df)
              THEN phase' = "crashed" /\ power' = NoPower
              ELSE phase' = "done"
                   /\ power' = [present |-> TRUE, values |-> Power_W(df)]
  /\ UNCHANGED <<uploaded_files, pos, scan, ret, data_logs, error_logs,
                 warnings, err_counts>>

\* ------------------------------------------------------------------------
\* Inputs
\* ------------------------------------------------------------------------
SeqsUpTo(S, n) == UNION {[1..k -> S] : k \in 0..n}
SeqsFrom1(S, n) == UNION {[1..k -> S] : k \in 1..n}

Filler == <<"x">>
Fill(n) == [k \in 1..n |-> Filler]

\* lines of the files whose header scan is examined
ScanLines ==
  { <<"Sample", ",", "DateTime", ",", "Voltage">>,
    <<" ", "Sample", ",", "DateTime">>,
    <<"x", "Sample", ",", "DateTime">>,
    <<"Error Code", ",", "Error String">>,
    <<"x", ",", "Time", ",", "LogCaption", ",", "Error Code">>,
    <<"Sample", ",", "DateTime", ",", "Error Code", ",", "Error String">>,
    <<"k", " ", "=", " ", "v">>,
    <<"k", "=", "w">>,
    <<"j", "=", "v", "=", "w">>,
    <<"1", ",", "t1">>,
    Filler }

\* lengths of the filler block: none, up to the scan limit, past the limit,
\* and past the first 100 lines
PadCounts == {0, ScanLimit - 1, ScanLimit, 100}

ScanContents ==
  {h \o Fill(p) \o t : h \in SeqsUpTo(ScanLines, MaxHead), p \in PadCounts,
                       t \in SeqsUpTo(ScanLines, MaxTail)}

\* files with a header and rows of differing width and time
TableHeaders ==
  { <<"Sample", ",", "DateTime", ",", "Voltage">>,
    <<"LogCaption", ",", "Time", ",", "Error Code", ",", "Error String">> }
TableRows ==
  UNION {{ <<"s", ",", t>>,
           <<"s", ",", t, ",", "5">>,
           <<"s", ",", t, ",", "5", ",", "9">> } : t \in {"t1", "t2", "bad"}}
TableContents ==
  {<<h>> \o rows : h \in TableHeaders, rows \in SeqsUpTo(TableRows, MaxRows)}

\* data files with one flag column
FlagHeader ==
  <<"Sample", ",", "DateTime", ",", "Voltage", ",", "Current", ",",
    "Safety", "Stat">>
FlagCells ==
  { <<"0">>, <<"0000">>, <<"1">>, <<"0x00">>, <<"0x0">>, <<"0x01">>,
    <<" ", "0x00">>, <<"0x0", " ">> }
FlagRow(c) == <<"1", ",", "t1", ",", "5", ",", "5", ",">> \o c
FlagContents ==
  {<<FlagHeader>> \o [r \in DOMAIN cs |-> FlagRow(cs[r])] :
     cs \in SeqsFrom1(FlagCells, MaxFlagRows)}

\* error files with a code column
ErrHeader == <<"Error Code", ",", "Error String">>
ErrCodes == {<<"3">>, <<"5">>, <<"7">>, NaN}
ErrRow(c) == c \o <<",", "e">>
ErrContents ==
  {<<ErrHeader>> \o [r \in DOMAIN cs |-> ErrRow(cs[r])] :
     cs \in SeqsFrom1(ErrCodes, MaxErrRows)}

\* the files of a batch
BatchNames == {"a.log", "b.log"}
BatchContents ==
  { << <<"Sample", ",", "DateTime", ",", "Voltage", ",", "Current">>,
       <<"1", ",", "t1", ",", "5", ",", "3">> >>,
    << <<"Sample", ",", "DateTime", ",", "Current">>,
       <<"1", ",", "t1", ",", "3">> >>,
    << <<"Error Code", ",", "Error String">>,
       <<"5", ",", "e">>, <<"3", ",", "e">> >>,
    << <<"Time", ",", "LogCaption", ",", "Error Code">>,
       <<"t1", ",", "c", ",", "5">> >>,
    << <<"Sample", ",", "DateTime", ",", "Voltage", ",", "Current">>,
       <<"1", ",", "t1", ",", "5", ",", "3">>,
       <<"2", ",", "t2", ",", "5", ",", "3", ",", "9">> >>,
    << Filler >> }
BatchFiles == [name : BatchNames, content : BatchContents]

single(contents) == {<< [name |-> "a.log", content |-> c] >> : c \in contents}

\* the state when the script starts on the given uploads
start(uploads) ==
  /\ uploaded_files \in uploads
  /\ pos = 0
  /\ scan = NoScan
  /\ ret = NoRet
  /\ data_logs = <<>>
  /\ error_logs = <<>>
  /\ warnings = <<>>
  /\ phase = "loop"
  /\ err_counts = <<>>
  /\ selected_file = ""
  /\ active_flags = <<>>
  /\ power = NoPower

\* ------------------------------------------------------------------------
\* Specifications
\* ------------------------------------------------------------------------
Init == start(SeqsFrom1(BatchFiles, MaxFiles))
Next == ParseNext \/ AnalyseErrorLog \/ AnalyseDataLog
Spec == Init /\ [][Next]_vars

InitScan == start(single(ScanContents))
NextScan == ParseNext
SpecScan == InitScan /\ [][NextScan]_vars

InitTable == start(single(TableContents))
NextTable == ParseNext
SpecTable == InitTable /\ [][NextTable]_vars

InitFlags == start(single(FlagContents))
NextFlags == ParseNext \/ AnalyseDataLog
SpecFlags == InitFlags /\ [][NextFlags]_vars

InitErr == start(single(ErrContents))
NextErr == ParseNext \/ AnalyseErrorLog
SpecErr == InitErr /\ [][NextErr]_vars

\* ------------------------------------------------------------------------
\* Properties of the header scan (SpecScan: one uploaded file)
\* ------------------------------------------------------------------------
content == uploaded_files[1].content
parsed == pos = 1
recognised == scan.file_type \in {"data", "error"}

\* the signature tests on a line as it stands in the file
matchesData(line) == startswith(line, DataSig)
matchesError(line) == contains(line, ErrSig1) \/ contains(line, ErrSig2)
matches(line) == matchesData(line) \/ matchesError(line)

\* zero-based index of the first line that matches, -1 when none does
firstMatch == 
  LET hits == {i \in 0..(Len(content) - 1) : matches(content[i + 1])}
  IN  IF hits = {} THEN -1 ELSE Min(hits)

\* the same with surrounding whitespace trimmed from the line first
firstTrimmedMatch ==
  LET hits == {i \in 0..(Len(content) - 1) : matches(strip(content[i + 1]))}
  IN  IF hits = {} THEN -1 ELSE Min(hits)

\* the returned table starts at line h: its columns are the fields of line h
tableStartsAt(h) ==
  ret.df.present =>
    ret.df.columns = [j \in 1..Len(split(content[h + 1], ",")) |->
                        strip(split(content[h + 1], ",")[j])]

\* C2 as stated: a file whose first signature line is at index i < 100 is
\* classified data or error and that line is the header line.
C2_First100 ==
  (parsed /\ firstTrimmedMatch \in 0..99) =>
    (recognised /\ scan.header_index = firstTrimmedMatch)

\* C2: a file whose first signature line is at index i < 50 is classified
\* data or error and that line is the header line.
C2_First50 ==
  (parsed /\ firstTrimmedMatch \in 0..49) =>
    (recognised /\ scan.header_index = firstTrimmedMatch)

C2_Witness ==
  parsed /\ firstTrimmedMatch = 49 /\ recognised /\ scan.header_index = 49

\* C3 as stated: a file with no line that matches a signature within the
\* first 100 lines is classified unknown and gets no table.
C3_UnknownUntrimmed ==
  (parsed /\ (firstMatch = -1 \/ firstMatch >= 100)) =>
    (ret.ftype = "unknown" /\ ~ret.df.present)

\* C3: a file with no line that, once trimmed, matches a signature within
\* the first 100 lines is classified unknown and gets no table.
C3_Unknown ==
  (parsed /\ (firstTrimmedMatch = -1 \/ firstTrimmedMatch >= 100)) =>
    (ret.ftype = "unknown" /\ ~ret.df.present)

C3_Witness ==
  parsed /\ firstTrimmedMatch >= 100 /\ ret.ftype = "unknown" /\ ~ret.df.present

\* C4 as stated: for a classified file the header index is the index of the
\* first line that matches a signature as it stands, the scan stops there,
\* the table starts there, and a line passing both tests is a data header.
C4_HeaderIndexUntrimmed ==
  (parsed /\ recognised) =>
    /\ scan.header_index = firstMatch
    /\ scan.i = firstMatch
    /\ tableStartsAt(firstMatch)
    /\ (matchesData(content[firstMatch + 1]) /\ matchesError(content[firstMatch + 1]))
         => scan.file_type = "data"

\* C4: for a classified file the header index is the index of the first line
\* that matches a signature once trimmed, the scan stops there, the table
\* starts there, and a line passing both tests is a data header.
C4_HeaderIndex ==
  (parsed /\ recognised) =>
    /\ scan.header_index = firstTrimmedMatch
    /\ scan.i = firstTrimmedMatch
    /\ tableStartsAt(firstTrimmedMatch)
    /\ (/\ matchesData(strip(content[firstTrimmedMatch + 1]))
        /\ matchesError(strip(content[firstTrimmedMatch + 1])))
         => scan.file_type = "data"

C4_Witness ==
  /\ parsed /\ recognised /\ ret.df.present
  /\ scan.header_index >= 1
  /\ matchesData(strip(content[scan.header_index + 1]))
  /\ matchesError(strip(content[scan.header_index + 1]))
  /\ scan.file_type = "data"

\* the `=` separators of a line, and its two sides around the first one
separators(line) == {i \in 1..Len(line) : line[i] = "="}
keyOf(line) == strip(SubSeq(line, 1, Min(separators(line)) - 1))
valueOf(line) == strip(SubSeq(line, Min(separators(line)) + 1, Len(line)))

\* the metadata that the lines with the given indices give, the last
\* occurrence of a key winning
metadataOf(I) ==
  [k \in {keyOf(content[i + 1]) : i \in I} |->
     valueOf(content[Max({i \in I : keyOf(content[i + 1]) = k}) + 1])]

\* C5 as stated: the metadata is what the lines before the header with
\* exactly one `=` give; no other line adds an entry.
C5_ExactlyOneSeparator ==
  (parsed /\ recognised) =>
    scan.metadata =
      metadataOf({i \in 0..(scan.header_index - 1) :
                    Cardinality(separators(content[i + 1])) = 1})

\* C5: the metadata is what the lines before the header with at least one
\* `=` give, each split at its first `=` with both sides trimmed and the
\* last occurrence of a key winning; no line at or after the header adds an
\* entry.
C5_Metadata ==
  (parsed /\ recognised) =>
    scan.metadata =
      metadataOf({i \in 0..(scan.header_index - 1) :
                    separators(content[i + 1]) # {}})

C5_Witness ==
  /\ parsed /\ recognised
  /\ \E i, j \in 0..(scan.header_index - 1) :
       /\ i < j
       /\ separators(content[i + 1]) # {} /\ separators(content[j + 1]) # {}
       /\ keyOf(content[i + 1]) = keyOf(content[j + 1])
       /\ valueOf(content[i + 1]) # valueOf(content[j + 1])
       /\ scan.metadata[keyOf(content[j + 1])] = valueOf(content[j + 1])

\* ------------------------------------------------------------------------
\* Properties of the parsed table (SpecTable: one uploaded file)
\* ------------------------------------------------------------------------
rows == ret.df.rows
timed == parsed /\ ret.df.present /\ time_col_of(ret.df) # <<>>

\* valid timestamps are non-decreasing, missing ones come after all valid
\* ones and keep their order in the file
sortedByTime ==
  \A a, b \in 1..Len(rows) : a < b =>
    /\ ~(~rows[a].time.valid /\ rows[b].time.valid)
    /\ (rows[a].time.valid /\ rows[b].time.valid) => rows[a].time.t <= rows[b].time.t
    /\ (~rows[a].time.valid /\ ~rows[b].time.valid) => rows[a].line < rows[b].line

\* rows with equal valid timestamps keep their order in the file
tiesKeepOrder ==
  \A a, b \in 1..Len(rows) :
    (/\ a < b
     /\ rows[a].time.valid /\ rows[b].time.valid
     /\ rows[a].time.t = rows[b].time.t) => rows[a].line < rows[b].line

\* C6 as stated: the rows are sorted stably by the time column, missing
\* timestamps last, ties and missing entries in their order in the file.
C6_StableSort == timed => (sortedByTime /\ tiesKeepOrder)

\* C6: the rows are sorted by the time column ascending, rows with a missing
\* timestamp come after all valid ones and keep their order in the file.
C6_Sorted == timed => sortedByTime

C6_Witness ==
  /\ timed
  /\ \E a, b \in 1..Len(rows) : a < b /\ rows[a].line > rows[b].line
  /\ \E a, b \in 1..Len(rows) : a < b /\ rows[a].time.valid /\ ~rows[b].time.valid
  /\ \E a, b \in 1..Len(rows) : a < b /\ ~rows[a].time.valid /\ ~rows[b].time.valid

fieldCount(line) == Len(split(line, ","))

\* the data rows of the file whose field count is the header's
wellFormedRows ==
  {r \in (scan.header_index + 2)..Len(content) :
     fieldCount(content[r]) = fieldCount(content[scan.header_index + 1])}

\* C7: whatever rows are malformed, the file comes back recognised with a
\* table whose row count is the number of rows that match the header's
\* field count.
C7_MalformedRowsDropped ==
  (parsed /\ recognised) =>
    /\ ret.ftype = scan.file_type
    /\ ret.df.present
    /\ Len(ret.df.rows) = Cardinality(wellFormedRows)

\* ------------------------------------------------------------------------
\* Properties of the flag check (SpecFlags: one uploaded data file)
\* ------------------------------------------------------------------------
analysed == selected_file # "" /\ phase \in {"done", "crashed"}
selected_df == get(data_logs, selected_file).df

reportedActive(c) == \E k \in 1..Len(active_flags) : active_flags[k] = c

\* C8: a candidate flag column of text values is reported active exactly
\* when some value, trimmed, is outside the zero alias set.
C8_TrimmedAliases ==
  analysed =>
    \A j \in 1..Len(selected_df.columns) :
      LET c   == selected_df.columns[j]
          col == column(selected_df, c)
      IN  (isFlagColumn(c) /\ ~isNumericColumn(col)) =>
            (reportedActive(c) <=>
               \E r \in 1..Len(col) : strip(col[r]) \notin ZeroAliases)

\* ------------------------------------------------------------------------
\* Properties of a batch (Spec)
\* ------------------------------------------------------------------------
\* C1: once the upload loop has ended every uploaded file has an outcome of
\* its own: a data table, an error table, or a skip warning.
C1_OneOutcomePerFile ==
  phase # "loop" =>
    Len(data_logs) + Len(error_logs) + Len(warnings) = Len(uploaded_files)

\* C9: analysing a data file without a Voltage or without a Current column
\* completes without an exception and produces no power column.
C9_NoPowerNoException ==
  (/\ selected_file # ""
   /\ ~(hasColumn(selected_df, <<"Voltage">>) /\ hasColumn(selected_df, <<"Current">>)))
    => (phase = "done" /\ ~power.present)

\* ------------------------------------------------------------------------
\* Properties of the error tally (SpecErr: one uploaded error file)
\* ------------------------------------------------------------------------
tallied == Len(err_counts) = 1
tally == err_counts[1].counts
codes == dropna(column(error_logs[1].value, <<"Error Code">>))

\* one pair per distinct code, each with its number of occurrences
tallyComplete ==
  /\ {tally[k].code : k \in 1..Len(tally)} = {codes[r] : r \in 1..Len(codes)}
  /\ \A a, b \in 1..Len(tally) : a # b => tally[a].code # tally[b].code
  /\ \A k \in 1..Len(tally) : tally[k].count = occurrences(codes, tally[k].code)

====
